---------------------------- MODULE Spec2Model ----------------------------
(***************************************************************************)
(* The orphanage creation form (OrphanagesMap, src/api/src/server.ts).     *)
(* The state is the component's React state plus what its asynchronous     *)
(* collaborators hold: the geolocation probe, the device key-value cache,  *)
(* the handleSubmit invocations and their posts in flight.  Every event    *)
(* handler is one action; an await splits a handler into two actions.      *)
(*                                                                         *)
(* Abstractions: a description is represented by its length (the schema    *)
(* reads nothing else of it); a File is a record of an identity and a      *)
(* display name; the object URL made for a File is the pair                *)
(* <<"blob", identity>>, distinct for the distinct Files of one pick.      *)
(***************************************************************************)
EXTENDS Integers, Sequences, FiniteSets, TLC

VARIABLES
    mounted,            \* the form instance is on screen
    permission,         \* result.state of the permission query
    geoPc,              \* position of the useEffect probe
    geoRequests,        \* number of getCurrentPosition calls made
    lateWrite,          \* setLoadPosition was called after teardown
    loadPosition,       \* <<>> (undefined) or <<latitude, longitude>>
    selectedPosition,   \* <<latitude, longitude>>
    clicked,            \* history: the map has delivered a click
    lastClick,          \* history: <<>> or the pair of the latest click
    name,
    description,        \* the length of the text
    opening_hours,
    open_on_weekends,
    images,             \* sequence of File
    previewImages,      \* sequence of PreviewImage
    alertName,
    alertDescription,
    alertPosition,
    alertImages,
    alertOh,
    storage,            \* localStorage items hope:latitude, hope:longitude
    attempts,           \* the handleSubmit invocations, in trigger order
    navigations,        \* number of navigate('/map') calls
    lastOp              \* history: the last AttachmentManager operation

draftVars == <<name, description, opening_hours, open_on_weekends>>
galleryVars == <<images, previewImages>>
alertVars == <<alertName, alertDescription, alertPosition, alertImages, alertOh>>
posVars == <<selectedPosition, clicked, lastClick>>
geoVars == <<permission, geoPc, geoRequests, lateWrite, loadPosition>>
vars == <<mounted, geoVars, posVars, draftVars, galleryVars, alertVars,
          storage, attempts, navigations, lastOp>>

----------------------------------------------------------------------------
(* Bounds of the model *)

\* Number of distinct File objects the user can pick from.
MaxFiles == 6
\* Number of submit triggers explored from a filled draft.
MaxSubmits == 2
\* Number of submit triggers explored from the construction of the form.
MaxFormSubmits == 1

(* Program constants *)

MaxDescription == 300
MaxImages == 5
DuplicateNameBcode == 1001

Required == "Campo obrigatório"
DescriptionTooLong == "Descrição muito longa, informe até 300 caracteres"
LocationMissing == "Informe a localizaçao no mapa"
ImagesTooMany == "Adicione até 5 fotos"
ImagesMissing == "Envie pelo menos uma foto"

Fields == {"name", "description", "location", "images", "opening_hours"}

----------------------------------------------------------------------------
(* Values *)

\* Files 1 and 2 carry the same display name; every other name is unique.
FileName(i) == IF i = 2 THEN 1 ELSE i
File(i) == [id |-> i, name |-> FileName(i)]
AllFiles == [i \in 1..MaxFiles |-> File(i)]

\* URL.createObjectURL(image): a fresh URL per File object.
CreateObjectURL(image) == <<"blob", image.id>>

\* selectedImages.map(image => ({ name, url })), lines 158-160.
RECURSIVE MapPreview(_)
MapPreview(files) ==
    IF files = <<>> THEN <<>>
    ELSE <<[name |-> Head(files).name, url |-> CreateObjectURL(Head(files))]>>
         \o MapPreview(Tail(files))

\* The truthiness of a number (NaN is not modelled).
Truthy(n) == n # 0

\* localStorage.getItem: an absent key reads null.
NoItem == [has |-> FALSE, val |-> ""]
Item(v) == [has |-> TRUE, val |-> v]
\* String(x) of a getItem result: null becomes the text "null".
StringOf(item) == IF item.has THEN item.val ELSE "null"
\* String(b) of a boolean.
StringOfBool(b) == IF b THEN "true" ELSE "false"

----------------------------------------------------------------------------
(* ValidationEngine: dataSchema, validated with abortEarly: false *)

Error(path, message) == [path |-> path, message |-> message]

\* Yup.string().required(): fails on the empty string.
NameTests(p) ==
    IF p.name = "" THEN <<Error("name", Required)>> ELSE <<>>

\* Yup.string().max(300).required(): both tests run.
DescriptionTests(p) ==
    (IF p.description > MaxDescription
        THEN <<Error("description", DescriptionTooLong)>> ELSE <<>>)
    \o (IF p.description = 0 THEN <<Error("description", Required)>> ELSE <<>>)

\* Faulty variant: the location counts as unset only when both coordinates
\* are zero.
LocationTestsBothZero(p) ==
    IF p.location.latitude = 0 /\ p.location.longitude = 0
    THEN <<Error("location", LocationMissing)>> ELSE <<>>

\* validator-location, lines 58-67.
LocationTests(p) ==
    IF (~Truthy(p.location.latitude) \/ p.location.latitude = 0)
       \/ (~Truthy(p.location.longitude) \/ p.location.longitude = 0)
    THEN <<Error("location", LocationMissing)>> ELSE <<>>

\* Faulty variant: the schema without its max(5) test.
ImagesTestsNoMax(p) ==
    IF Len(p.images) <= 0 THEN <<Error("images", ImagesMissing)>> ELSE <<>>

\* Yup.array().max(5) and validator-images, lines 68-80: both tests run.
ImagesTests(p) ==
    (IF Len(p.images) > MaxImages
        THEN <<Error("images", ImagesTooMany)>> ELSE <<>>)
    \o (IF Len(p.images) <= 0 THEN <<Error("images", ImagesMissing)>> ELSE <<>>)

\* Yup.string().required().
OpeningHoursTests(p) ==
    IF p.opening_hours = "" THEN <<Error("opening_hours", Required)>> ELSE <<>>

\* Faulty variant: validation that stops at the first failing test
\* (abortEarly: true).
ValidateAbortEarly(p) ==
    LET all == NameTests(p) \o DescriptionTests(p) \o LocationTests(p)
               \o ImagesTests(p) \o OpeningHoursTests(p)
    IN IF all = <<>> THEN <<>> ELSE <<Head(all)>>

\* error.inner of dataSchema.validate(payload, { abortEarly: false }).
Validate(p) ==
    NameTests(p) \o DescriptionTests(p) \o LocationTests(p)
    \o ImagesTests(p) \o OpeningHoursTests(p)

\* The payload handleSubmit assembles from the values of its render.
Payload(env) ==
    [name |-> env.name,
     description |-> env.description,
     location |->
        [latitude |-> IF Truthy(env.selectedPosition[1])
                      THEN env.selectedPosition[1] ELSE 0,
         longitude |-> IF Truthy(env.selectedPosition[2])
                       THEN env.selectedPosition[2] ELSE 0],
     images |-> env.images,
     opening_hours |-> env.opening_hours]

\* The switch of lines 206-222 applied to error.inner in order: the slot of
\* `path` holds the message of the last error tagged `path`, or keeps `old`.
RECURSIVE SlotAfter(_, _, _)
SlotAfter(errors, path, old) ==
    IF errors = <<>> THEN old
    ELSE SlotAfter(Tail(errors), path,
                   IF Head(errors).path = path THEN Head(errors).message ELSE old)

\* Faulty variant: the coordinates of the request are those of the
\* validated selection.
FormDataFromSelection(env, store) ==
    [name |-> env.name,
     description |-> env.description,
     latitude |-> ToString(env.selectedPosition[1]),
     longitude |-> ToString(env.selectedPosition[2]),
     opening_hours |-> env.opening_hours,
     open_on_weekends |-> StringOfBool(env.open_on_weekends),
     images |-> env.images]

\* The FormData of lines 228-239.
FormData(env, store) ==
    [name |-> env.name,
     description |-> env.description,
     latitude |-> StringOf(store.latitude),
     longitude |-> StringOf(store.longitude),
     opening_hours |-> env.opening_hours,
     open_on_weekends |-> StringOfBool(env.open_on_weekends),
     images |-> env.images]

----------------------------------------------------------------------------
(* The handleSubmit invocations *)

NoEnv == [live |-> FALSE]
NoData == [sent |-> FALSE]

\* An axios error: `response` is absent when no response was received;
\* response.data.bcode is <<>> when the body carries no bcode.
AxiosError(hasResponse, bcode) == [hasResponse |-> hasResponse, bcode |-> bcode]

\* How the promise of api.post settled (history).
Pending == [kind |-> "pending", error |-> AxiosError(FALSE, <<>>)]
Fulfilled == [kind |-> "fulfilled", error |-> AxiosError(FALSE, <<>>)]
Rejected(error) == [kind |-> "rejected", error |-> error]

\* The values handleSubmit closes over: those of the render it was made in.
Env ==
    [live |-> TRUE,
     name |-> name,
     description |-> description,
     opening_hours |-> opening_hours,
     open_on_weekends |-> open_on_weekends,
     images |-> images,
     selectedPosition |-> selectedPosition]

Attempts == DOMAIN attempts

\* No continuation of an await on dataSchema.validate is queued.  Such a
\* continuation is a microtask: it runs before the next event is delivered.
Idle == \A i \in Attempts : attempts[i].pc # "validating"

\* The user can act on the form.
Interactive == mounted /\ Idle

Notice(icon, text) == [icon |-> icon, name |-> text]

----------------------------------------------------------------------------
(* GeolocationProbe: the useEffect of lines 110-124 *)

PermissionQueryResolves(state) ==
    /\ Idle
    /\ geoPc = "query"
    /\ permission' = state
    /\ geoPc' = "position"
    /\ geoRequests' = geoRequests + 1
    /\ UNCHANGED <<mounted, lateWrite, loadPosition, posVars, draftVars,
                   galleryVars, alertVars, storage, attempts, navigations, lastOp>>

\* The success callback of getCurrentPosition; a state update of a form
\* that is no longer mounted is dropped.
PositionSuccess(coords) ==
    /\ Idle
    /\ geoPc = "position"
    /\ permission # "denied"
    /\ geoPc' = "located"
    /\ loadPosition' = IF mounted THEN coords ELSE loadPosition
    /\ lateWrite' = (lateWrite \/ ~mounted)
    /\ UNCHANGED <<mounted, permission, geoRequests, posVars, draftVars,
                   galleryVars, alertVars, storage, attempts, navigations, lastOp>>

\* getCurrentPosition is given no error callback.
PositionError ==
    /\ Idle
    /\ geoPc = "position"
    /\ geoPc' = "failed"
    /\ UNCHANGED <<mounted, permission, geoRequests, lateWrite, loadPosition,
                   posVars, draftVars, galleryVars, alertVars, storage,
                   attempts, navigations, lastOp>>

----------------------------------------------------------------------------
(* PositionSelector and the text fields *)

\* Faulty variant: the click handler stores the pair in the wrong order.
MapClickSwapped(lat, lng) ==
    /\ Interactive
    /\ loadPosition # <<>>
    /\ selectedPosition' = <<lng, lat>>
    /\ clicked' = TRUE
    /\ lastClick' = <<lat, lng>>
    /\ UNCHANGED <<mounted, geoVars, draftVars, galleryVars, alertVars, storage,
                   attempts, navigations, lastOp>>

\* Faulty variant: the map is rendered whether or not the center is set.
MapClickWithoutMap(lat, lng) ==
    /\ Interactive
    /\ selectedPosition' = <<lat, lng>>
    /\ clicked' = TRUE
    /\ lastClick' = <<lat, lng>>
    /\ UNCHANGED <<mounted, geoVars, draftVars, galleryVars, alertVars, storage,
                   attempts, navigations, lastOp>>

\* The map, and with it Markers, is rendered only when loadPosition is set.
MapClick(lat, lng) ==
    /\ Interactive
    /\ loadPosition # <<>>
    /\ selectedPosition' = <<lat, lng>>
    /\ clicked' = TRUE
    /\ lastClick' = <<lat, lng>>
    /\ UNCHANGED <<mounted, geoVars, draftVars, galleryVars, alertVars, storage,
                   attempts, navigations, lastOp>>

SetName(v) ==
    /\ Interactive
    /\ name' = v
    /\ UNCHANGED <<mounted, geoVars, posVars, description, opening_hours,
                   open_on_weekends, galleryVars, alertVars, storage, attempts,
                   navigations, lastOp>>

SetDescription(v) ==
    /\ Interactive
    /\ description' = v
    /\ UNCHANGED <<mounted, geoVars, posVars, name, opening_hours,
                   open_on_weekends, galleryVars, alertVars, storage, attempts,
                   navigations, lastOp>>

SetOpeningHours(v) ==
    /\ Interactive
    /\ opening_hours' = v
    /\ UNCHANGED <<mounted, geoVars, posVars, name, description,
                   open_on_weekends, galleryVars, alertVars, storage, attempts,
                   navigations, lastOp>>

SetOpenOnWeekends(v) ==
    /\ Interactive
    /\ open_on_weekends' = v
    /\ UNCHANGED <<mounted, geoVars, posVars, name, description,
                   opening_hours, galleryVars, alertVars, storage, attempts,
                   navigations, lastOp>>

----------------------------------------------------------------------------
(* AttachmentManager *)

Gallery == [images |-> images, previewImages |-> previewImages]

\* event.target.files is null (hasFiles = FALSE) or a FileList.
FileEvent(files) == [hasFiles |-> TRUE, files |-> files]
NullFileEvent == [hasFiles |-> FALSE, files |-> <<>>]

\* Faulty variant: a pick is added to the gallery instead of replacing it.
HandleSelectImagesAppends(event) ==
    /\ Interactive
    /\ IF ~event.hasFiles
       THEN UNCHANGED galleryVars
       ELSE /\ images' = images \o event.files
            /\ previewImages' = previewImages \o MapPreview(event.files)
    /\ UNCHANGED <<mounted, geoVars, posVars, draftVars, alertVars,
                   storage, attempts, navigations>>

HandleSelectImages(event) ==
    /\ Interactive
    /\ IF ~event.hasFiles
       THEN UNCHANGED galleryVars
       ELSE /\ images' = event.files
            /\ previewImages' = MapPreview(event.files)
    /\ UNCHANGED <<mounted, geoVars, posVars, draftVars, alertVars,
                   storage, attempts, navigations>>

\* The remove control is rendered once per element of previewImages.
HandleRemoveImage(image) ==
    /\ Interactive
    /\ \E k \in DOMAIN previewImages : previewImages[k] = image
    /\ previewImages' = SelectSeq(previewImages, LAMBDA img : img.url # image.url)
    /\ images' = SelectSeq(images, LAMBDA img : img.name # image.name)
    /\ UNCHANGED <<mounted, geoVars, posVars, draftVars, alertVars,
                   storage, attempts, navigations>>

\* History: the operation just applied, its argument and the gallery it
\* was applied to.  Only the specification of the AttachmentManager
\* alone keeps it.
Observed(op, arg) == lastOp' = [op |-> op, arg |-> arg, before |-> Gallery]

----------------------------------------------------------------------------
(* SubmissionController *)

\* Faulty variant: resetAlerts leaves the name slot as it is.
ResetAlertsSkipsName ==
    /\ UNCHANGED alertName
    /\ alertDescription' = ""
    /\ alertPosition' = ""
    /\ alertImages' = ""
    /\ alertOh' = ""

\* resetAlerts, lines 174-180.
ResetAlerts ==
    /\ alertName' = ""
    /\ alertDescription' = ""
    /\ alertPosition' = ""
    /\ alertImages' = ""
    /\ alertOh' = ""

\* Faulty variant: the trigger is refused while a post is pending.
HandleSubmitGated(limit) ==
    /\ Interactive
    /\ \A i \in Attempts : attempts[i].pc # "submitting"
    /\ Len(attempts) < limit
    /\ ResetAlerts
    /\ attempts' = Append(attempts,
            [pc |-> "validating", env |-> Env,
             passed |-> (Validate(Payload(Env)) = <<>>),
             data |-> NoData, posts |-> 0, outcome |-> Pending,
             notices |-> <<>>, navigated |-> FALSE])
    /\ UNCHANGED <<mounted, geoVars, posVars, draftVars, galleryVars,
                   storage, navigations, lastOp>>

\* handleSubmit up to its first await (lines 183-198).  `passed` records
\* whether the snapshot satisfies every rule of the schema.
HandleSubmit(limit) ==
    /\ Interactive
    /\ Len(attempts) < limit
    /\ ResetAlerts
    /\ attempts' = Append(attempts,
            [pc |-> "validating", env |-> Env,
             passed |-> (Validate(Payload(Env)) = <<>>),
             data |-> NoData, posts |-> 0, outcome |-> Pending,
             notices |-> <<>>, navigated |-> FALSE])
    /\ UNCHANGED <<mounted, geoVars, posVars, draftVars, galleryVars,
                   storage, navigations, lastOp>>

\* Faulty variant: the catch block without its return, so that the request
\* is built and sent whatever the validation found.
ValidationSettlesNoReturn(i) ==
    /\ i \in Attempts
    /\ attempts[i].pc = "validating"
    /\ LET env == attempts[i].env
           errors == Validate(Payload(env))
       IN /\ alertName' = SlotAfter(errors, "name", alertName)
          /\ alertDescription' = SlotAfter(errors, "description", alertDescription)
          /\ alertPosition' = SlotAfter(errors, "location", alertPosition)
          /\ alertImages' = SlotAfter(errors, "images", alertImages)
          /\ alertOh' = SlotAfter(errors, "opening_hours", alertOh)
          /\ attempts' = [attempts EXCEPT
                            ![i].pc = "submitting",
                            ![i].data = [sent |-> TRUE,
                                         form |-> FormData(env, storage)],
                            ![i].posts = @ + 1]
    /\ UNCHANGED <<mounted, geoVars, posVars, draftVars, galleryVars,
                   storage, navigations, lastOp>>

\* handleSubmit from the await on validate to the await on api.post
\* (lines 198-241): the catch block with its return, or the request.
ValidationSettles(i) ==
    /\ i \in Attempts
    /\ attempts[i].pc = "validating"
    /\ LET env == attempts[i].env
           errors == Validate(Payload(env))
       IN IF errors # <<>>
          THEN /\ alertName' = SlotAfter(errors, "name", alertName)
               /\ alertDescription' = SlotAfter(errors, "description", alertDescription)
               /\ alertPosition' = SlotAfter(errors, "location", alertPosition)
               /\ alertImages' = SlotAfter(errors, "images", alertImages)
               /\ alertOh' = SlotAfter(errors, "opening_hours", alertOh)
               /\ attempts' = [attempts EXCEPT ![i].pc = "invalid",
                                               ![i].env = NoEnv]
          ELSE /\ UNCHANGED alertVars
               /\ attempts' = [attempts EXCEPT
                                 ![i].pc = "submitting",
                                 ![i].data = [sent |-> TRUE,
                                              form |-> FormData(env, storage)],
                                 ![i].posts = @ + 1]
    /\ UNCHANGED <<mounted, geoVars, posVars, draftVars, galleryVars,
                   storage, navigations, lastOp>>

\* Faulty variant: the then callback navigates without a notice, and a
\* second post is issued for the same invocation.
PostFulfilledRetries(i) ==
    /\ Idle
    /\ i \in Attempts
    /\ attempts[i].pc = "submitting"
    /\ attempts' = [attempts EXCEPT
                      ![i].pc = "success",
                      ![i].outcome = Fulfilled,
                      ![i].env = NoEnv,
                      ![i].data = NoData,
                      ![i].posts = @ + 1,
                      ![i].navigated = TRUE]
    /\ navigations' = navigations + 1
    /\ mounted' = FALSE
    /\ UNCHANGED <<geoVars, posVars, draftVars, galleryVars, alertVars,
                   storage, lastOp>>

\* Faulty variant: the then callback does nothing once the form is gone.
PostFulfilledGuarded(i) ==
    /\ Idle
    /\ i \in Attempts
    /\ attempts[i].pc = "submitting"
    /\ IF mounted
       THEN /\ attempts' = [attempts EXCEPT
                              ![i].pc = "success",
                              ![i].outcome = Fulfilled,
                              ![i].env = NoEnv,
                              ![i].data = NoData,
                              ![i].notices = Append(@, Notice("success", "")),
                              ![i].navigated = TRUE]
            /\ navigations' = navigations + 1
       ELSE /\ attempts' = [attempts EXCEPT
                              ![i].pc = "success",
                              ![i].outcome = Fulfilled,
                              ![i].env = NoEnv,
                              ![i].data = NoData]
            /\ UNCHANGED navigations
    /\ mounted' = FALSE
    /\ UNCHANGED <<geoVars, posVars, draftVars, galleryVars, alertVars,
                   storage, lastOp>>

\* The then callback of api.post, lines 241-249.
PostFulfilled(i) ==
    /\ Idle
    /\ i \in Attempts
    /\ attempts[i].pc = "submitting"
    /\ attempts' = [attempts EXCEPT
                      ![i].pc = "success",
                      ![i].outcome = Fulfilled,
                      ![i].env = NoEnv,
                      ![i].data = NoData,
                      ![i].notices = Append(@, Notice("success", "")),
                      ![i].navigated = TRUE]
    /\ navigations' = navigations + 1
    /\ mounted' = FALSE
    /\ UNCHANGED <<geoVars, posVars, draftVars, galleryVars, alertVars,
                   storage, lastOp>>

\* Faulty variant: a post rejected with a response is sent again by the
\* catch callback.
PostRejectedRetries(i, error) ==
    /\ Idle
    /\ i \in Attempts
    /\ attempts[i].pc = "submitting"
    /\ IF ~error.hasResponse
       THEN attempts' = [attempts EXCEPT ![i].pc = "threw",
                                         ![i].outcome = Rejected(error),
                                         ![i].env = NoEnv,
                                         ![i].data = NoData]
       ELSE attempts' = [attempts EXCEPT
                           ![i].pc = "failure",
                           ![i].outcome = Rejected(error),
                           ![i].env = NoEnv,
                           ![i].data = NoData,
                           ![i].posts = @ + 1,
                           ![i].notices = Append(@, Notice("error", ""))]
    /\ UNCHANGED <<mounted, geoVars, posVars, draftVars, galleryVars,
                   alertVars, storage, navigations, lastOp>>

\* Faulty variant: a rejected post writes its message into the name slot.
PostRejectedWritesSlot(i, error) ==
    /\ Idle
    /\ i \in Attempts
    /\ attempts[i].pc = "submitting"
    /\ attempts' = [attempts EXCEPT
                      ![i].pc = "failure",
                      ![i].outcome = Rejected(error),
                      ![i].env = NoEnv,
                      ![i].data = NoData]
    /\ alertName' = "Já existe um cadastro com o nome"
    /\ UNCHANGED <<mounted, geoVars, posVars, draftVars, galleryVars,
                   alertDescription, alertPosition, alertImages, alertOh,
                   storage, navigations, lastOp>>

\* Faulty variant: the duplicate-name notice shows the name the field
\* holds when the response arrives.
PostRejectedLiveName(i, error) ==
    /\ Idle
    /\ i \in Attempts
    /\ attempts[i].pc = "submitting"
    /\ IF ~error.hasResponse
       THEN attempts' = [attempts EXCEPT ![i].pc = "threw",
                                         ![i].outcome = Rejected(error),
                                         ![i].env = NoEnv,
                                         ![i].data = NoData]
       ELSE IF error.bcode = <<DuplicateNameBcode>>
       THEN attempts' = [attempts EXCEPT
                           ![i].pc = "conflict",
                           ![i].outcome = Rejected(error),
                           ![i].env = NoEnv,
                           ![i].data = NoData,
                           ![i].notices = Append(@, Notice("warning", name))]
       ELSE attempts' = [attempts EXCEPT
                           ![i].pc = "failure",
                           ![i].outcome = Rejected(error),
                           ![i].env = NoEnv,
                           ![i].data = NoData,
                           ![i].notices = Append(@, Notice("error", ""))]
    /\ UNCHANGED <<mounted, geoVars, posVars, draftVars, galleryVars,
                   alertVars, storage, navigations, lastOp>>

\* The catch callback of api.post, lines 250-270.  Reading
\* error.response.data of an error without a response throws.
PostRejected(i, error) ==
    /\ Idle
    /\ i \in Attempts
    /\ attempts[i].pc = "submitting"
    /\ IF ~error.hasResponse
       THEN attempts' = [attempts EXCEPT ![i].pc = "threw",
                                         ![i].outcome = Rejected(error),
                                         ![i].env = NoEnv,
                                         ![i].data = NoData]
       ELSE IF error.bcode = <<DuplicateNameBcode>>
       THEN attempts' = [attempts EXCEPT
                           ![i].pc = "conflict",
                           ![i].outcome = Rejected(error),
                           ![i].env = NoEnv,
                           ![i].data = NoData,
                           ![i].notices = Append(@, Notice("warning", attempts[i].env.name))]
       ELSE attempts' = [attempts EXCEPT
                           ![i].pc = "failure",
                           ![i].outcome = Rejected(error),
                           ![i].env = NoEnv,
                           ![i].data = NoData,
                           ![i].notices = Append(@, Notice("error", ""))]
    /\ UNCHANGED <<mounted, geoVars, posVars, draftVars, galleryVars,
                   alertVars, storage, navigations, lastOp>>

----------------------------------------------------------------------------
(* The environment *)

\* The collaborator that owns the device cache stores a position.
StorageWrite(lat, lng) ==
    /\ Idle
    /\ storage' = [latitude |-> Item(lat), longitude |-> Item(lng)]
    /\ UNCHANGED <<mounted, geoVars, posVars, draftVars, galleryVars,
                   alertVars, attempts, navigations, lastOp>>

\* The user leaves the page.
Unmount ==
    /\ Interactive
    /\ mounted' = FALSE
    /\ UNCHANGED <<geoVars, posVars, draftVars, galleryVars, alertVars,
                   storage, attempts, navigations, lastOp>>

----------------------------------------------------------------------------
(* Inputs *)

Names == {"", "Lar Esperança"}
DescriptionLengths == {0, MaxDescription, MaxDescription + 1}
Hours == {"", "8h-18h"}
Coordinates == {0, 5}
PermissionStates == {"granted", "denied"}
DeviceCoords == {<<5, 5>>}
CachedCoords == {<<"-23.5", "-46.6">>}
Bcodes == {<<DuplicateNameBcode>>, <<9999>>, <<>>}
AxiosErrors ==
    {AxiosError(TRUE, b) : b \in Bcodes} \cup {AxiosError(FALSE, <<>>)}

\* FileLists: the first k files, and every run of consecutive files.
Prefixes == {SubSeq(AllFiles, 1, k) : k \in 0..MaxFiles}
Runs == {SubSeq(AllFiles, j, k) : j \in 1..MaxFiles, k \in 0..MaxFiles}
\* The picks of the whole-form specification: none, one file, two files
\* of the same display name.
FormPicks == {<<>>, <<File(1)>>, <<File(1), File(2)>>}

----------------------------------------------------------------------------
(* The form from its construction *)

Init ==
    /\ mounted = TRUE
    /\ permission = "unknown"
    /\ geoPc = "query"
    /\ geoRequests = 0
    /\ lateWrite = FALSE
    /\ loadPosition = <<>>
    /\ selectedPosition = <<0, 0>>
    /\ clicked = FALSE
    /\ lastClick = <<>>
    /\ name = ""
    /\ description = 0
    /\ opening_hours = ""
    /\ open_on_weekends = TRUE
    /\ images = <<>>
    /\ previewImages = <<>>
    /\ alertName = ""
    /\ alertDescription = ""
    /\ alertPosition = ""
    /\ alertImages = ""
    /\ alertOh = ""
    /\ storage = [latitude |-> NoItem, longitude |-> NoItem]
    /\ attempts = <<>>
    /\ navigations = 0
    /\ lastOp = [op |-> "none", arg |-> <<>>,
                 before |-> [images |-> <<>>, previewImages |-> <<>>]]

Next ==
    \/ \E state \in PermissionStates : PermissionQueryResolves(state)
    \/ \E coords \in DeviceCoords : PositionSuccess(coords)
    \/ PositionError
    \/ \E lat \in Coordinates, lng \in Coordinates : MapClick(lat, lng)
    \/ \E v \in Names : SetName(v)
    \/ \E v \in DescriptionLengths : SetDescription(v)
    \/ \E v \in Hours : SetOpeningHours(v)
    \/ \E v \in BOOLEAN : SetOpenOnWeekends(v)
    \/ \E files \in FormPicks :
            HandleSelectImages(FileEvent(files)) /\ UNCHANGED lastOp
    \/ \E k \in DOMAIN previewImages :
            HandleRemoveImage(previewImages[k]) /\ UNCHANGED lastOp
    \/ HandleSubmit(MaxFormSubmits)
    \/ \E i \in Attempts : ValidationSettles(i)
    \/ \E i \in Attempts : PostFulfilled(i)
    \/ \E i \in Attempts, error \in AxiosErrors : PostRejected(i, error)
    \/ \E c \in CachedCoords : StorageWrite(c[1], c[2])
    \/ Unmount

Spec == Init /\ [][Next]_vars

----------------------------------------------------------------------------
(* The form from a filled draft: the user has typed the fields, the map    *)
(* is on screen, and one pick has filled the gallery.  The name is edited  *)
(* between submit triggers.                                                *)

InitDraft ==
    /\ mounted = TRUE
    /\ permission = "granted"
    /\ geoPc = "located"
    /\ geoRequests = 1
    /\ lateWrite = FALSE
    /\ loadPosition \in DeviceCoords
    /\ selectedPosition \in Coordinates \X Coordinates
    /\ clicked = (selectedPosition # <<0, 0>>)
    /\ lastClick = IF clicked THEN selectedPosition ELSE <<>>
    /\ name \in Names
    /\ description \in DescriptionLengths
    /\ opening_hours \in Hours
    /\ open_on_weekends \in BOOLEAN
    /\ images \in Prefixes
    /\ previewImages = MapPreview(images)
    /\ alertName = ""
    /\ alertDescription = ""
    /\ alertPosition = ""
    /\ alertImages = ""
    /\ alertOh = ""
    /\ storage \in {[latitude |-> NoItem, longitude |-> NoItem]}
                 \cup {[latitude |-> Item(c[1]), longitude |-> Item(c[2])] :
                        c \in CachedCoords}
    /\ attempts = <<>>
    /\ navigations = 0
    /\ lastOp = [op |-> "none", arg |-> <<>>,
                 before |-> [images |-> <<>>, previewImages |-> <<>>]]

NextDraft ==
    \/ \E v \in Names : SetName(v)
    \/ \E v \in DescriptionLengths : SetDescription(v)
    \/ \E v \in Hours : SetOpeningHours(v)
    \/ HandleSubmit(MaxSubmits)
    \/ \E i \in Attempts : ValidationSettles(i)
    \/ \E i \in Attempts : PostFulfilled(i)
    \/ \E i \in Attempts, error \in AxiosErrors : PostRejected(i, error)

SpecDraft == InitDraft /\ [][NextDraft]_vars

----------------------------------------------------------------------------
(* The AttachmentManager alone, with the history of its last operation *)

NextGallery ==
    \/ \E files \in Runs :
            HandleSelectImages(FileEvent(files)) /\ Observed("addMany", files)
    \/ HandleSelectImages(NullFileEvent) /\ Observed("ignored", <<>>)
    \/ \E k \in DOMAIN previewImages :
            HandleRemoveImage(previewImages[k])
            /\ Observed("remove", <<previewImages[k]>>)

SpecGallery == Init /\ [][NextGallery]_vars

----------------------------------------------------------------------------
(* Vocabulary of the properties *)

AlertsEmpty ==
    /\ alertName = ""
    /\ alertDescription = ""
    /\ alertPosition = ""
    /\ alertImages = ""
    /\ alertOh = ""

\* The error slot of a schema field.
Slot(field) ==
    CASE field = "name" -> alertName
      [] field = "description" -> alertDescription
      [] field = "location" -> alertPosition
      [] field = "images" -> alertImages
      [] field = "opening_hours" -> alertOh

\* The five rules as the specification words them, over a payload.
RuleFails(field, p) ==
    CASE field = "name" -> p.name = ""
      [] field = "description" -> p.description = 0 \/ p.description > 300
      [] field = "location" ->
            ~(p.location.latitude # 0 /\ p.location.longitude # 0)
      [] field = "images" -> ~(Len(p.images) \in 1..5)
      [] field = "opening_hours" -> p.opening_hours = ""

Count(errors, field) ==
    Cardinality({k \in DOMAIN errors : errors[k].path = field})

Elements(seq) == {seq[k] : k \in DOMAIN seq}

RECURSIVE PostsUpTo(_)
PostsUpTo(k) == IF k = 0 THEN 0 ELSE attempts[k].posts + PostsUpTo(k - 1)
NetworkCalls == PostsUpTo(Len(attempts))
PassedTriggers == Cardinality({i \in Attempts : attempts[i].passed})

Validating(i) == attempts[i].pc = "validating"
Latest(i) == i = Len(attempts)

----------------------------------------------------------------------------
(* Properties *)

\* C1: the number of network calls issued never exceeds the number of
\* submit triggers whose snapshot passed all five rules, and a trigger
\* whose snapshot has an error issues no call.
C1_NoCallForInvalidSnapshot ==
    /\ NetworkCalls <= PassedTriggers
    /\ \A i \in Attempts :
          ~attempts[i].passed => attempts[i].posts = 0 /\ attempts[i].data = NoData

C1_Witness ==
    \E i, j \in Attempts :
        /\ attempts[i].pc = "invalid" /\ attempts[i].posts = 0
        /\ attempts[j].pc = "submitting" /\ attempts[j].posts = 1

\* C2 as claimed: whenever an attempt has navigated, it made exactly one
\* network call, that call succeeded, and all five error slots are empty.
C2_AsClaimed ==
    \A i \in Attempts :
        attempts[i].navigated =>
            /\ attempts[i].posts = 1
            /\ attempts[i].outcome.kind = "fulfilled"
            /\ AlertsEmpty

\* C2 amended: an attempt that has navigated made exactly one network call
\* and that call succeeded; every navigation belongs to such an attempt;
\* and while the attempt is the latest one triggered, the five error slots
\* are empty from the sending of its request through its navigation.
C2_SuccessfulSubmit ==
    /\ \A i \in Attempts :
          attempts[i].navigated =>
              attempts[i].posts = 1 /\ attempts[i].outcome.kind = "fulfilled"
    /\ navigations = Cardinality({i \in Attempts : attempts[i].navigated})
    /\ \A i \in Attempts :
          attempts[i].pc \in {"submitting", "success"} /\ Latest(i) =>
              AlertsEmpty /\ attempts[i].posts = 1

C2_Witness ==
    \E i \in Attempts :
        attempts[i].navigated /\ Latest(i) /\ AlertsEmpty /\ navigations = 1

\* C3: validate() returns exactly one error for each field whose rule
\* fails and none for a field whose rule passes, whatever other fields
\* fail; a draft passes exactly when it has no error.
C3_OneErrorPerFailingField ==
    \A i \in Attempts :
        Validating(i) =>
            LET p == Payload(attempts[i].env)
                errors == Validate(p)
            IN /\ \A f \in Fields :
                    Count(errors, f) = IF RuleFails(f, p) THEN 1 ELSE 0
               /\ Len(errors) = Cardinality({f \in Fields : RuleFails(f, p)})
               /\ attempts[i].passed = (errors = <<>>)
               /\ (p.name = "" /\ \A f \in Fields \ {"name"} : ~RuleFails(f, p))
                     => errors = <<Error("name", Required)>>

\* Every one of the five rules fails on the snapshot being validated.
C3_Witness ==
    \E i \in Attempts :
        /\ Validating(i)
        /\ Len(Validate(Payload(attempts[i].env))) = 5
        /\ \A f \in Fields : RuleFails(f, Payload(attempts[i].env))

\* C4 as claimed: every rejected network call shows exactly one notice,
\* the duplicate-name warning iff the response carries bcode 1001 and the
\* generic error otherwise, a rejection without a response included.
C4_AsClaimed ==
    \A i \in Attempts :
        attempts[i].outcome.kind = "rejected" =>
            LET error == attempts[i].outcome.error
                duplicate == error.hasResponse /\ error.bcode = <<1001>>
            IN /\ Len(attempts[i].notices) = 1
               /\ attempts[i].notices[1].icon =
                     IF duplicate THEN "warning" ELSE "error"

\* C5: the step that handles a network outcome leaves the five error
\* slots as they were.
C5_OutcomeLeavesSlots ==
    [][(\E i \in Attempts :
            attempts[i].pc = "submitting" /\ attempts'[i].pc # "submitting")
        => UNCHANGED alertVars]_vars

C5_Witness ==
    \E i \in Attempts :
        /\ attempts[i].pc = "conflict"
        /\ attempts[i].notices = <<Notice("warning", name)>>
        /\ name # ""
        /\ AlertsEmpty

\* C6: a submit trigger leaves all five slots empty, and the step that
\* ends an attempt's validation leaves each slot non-empty exactly when
\* the rule of its field fails on that attempt's snapshot.
C6_SlotsReflectThisAttempt ==
    [][/\ Len(attempts') > Len(attempts) => AlertsEmpty'
       /\ \A i \in Attempts :
            Validating(i) /\ attempts'[i].pc # "validating" =>
                \A f \in Fields :
                    (Slot(f)' # "") <=> RuleFails(f, Payload(attempts[i].env))]_vars

\* A first attempt was invalid, a second one passed: no slot is populated.
C6_Witness ==
    /\ Len(attempts) = 2
    /\ attempts[1].pc = "invalid"
    /\ attempts[2].pc = "submitting"
    /\ AlertsEmpty

\* C7: before any map click the selection is (0,0), and the step that
\* ends a validation populates the location slot exactly when latitude or
\* longitude of the snapshot is zero.
C7_LocationSetIffBothNonZero ==
    [][/\ ~clicked => selectedPosition = <<0, 0>>
       /\ \A i \in Attempts :
            Validating(i) /\ attempts'[i].pc # "validating" =>
                LET at == attempts[i].env.selectedPosition
                IN (alertPosition' = LocationMissing) <=> ~(at[1] # 0 /\ at[2] # 0)]_vars

\* A snapshot taken before any map click has failed the location rule.
C7_Witness ==
    /\ ~clicked
    /\ loadPosition # <<>>
    /\ \E i \in Attempts : attempts[i].pc = "invalid"
    /\ alertPosition = LocationMissing

\* C8: the images tests pass exactly when the snapshot holds 1 to 5
\* attachments, and every request sent carries 1 to 5 image parts.
C8_OneToFiveImages ==
    /\ \A i \in Attempts :
          Validating(i) =>
              LET p == Payload(attempts[i].env)
              IN (ImagesTests(p) = <<>>) <=> (Len(p.images) \in 1..5)
    /\ \A i \in Attempts :
          attempts[i].data # NoData =>
              Len(attempts[i].data.form.images) \in 1..5

\* A gallery of more than five files was submitted and refused.
C8_Witness ==
    /\ Len(images) > 5
    /\ \E i \in Attempts : attempts[i].pc = "invalid" /\ Latest(i)
    /\ alertImages = ImagesTooMany

\* C9: after addMany(files) the binary list is `files` and the preview
\* list names the same files in the same order, whatever the gallery held.
C9_AddManyReplaces ==
    lastOp.op = "addMany" =>
        /\ images = lastOp.arg
        /\ Len(previewImages) = Len(lastOp.arg)
        /\ \A k \in DOMAIN previewImages :
              /\ previewImages[k].name = lastOp.arg[k].name
              /\ previewImages[k].url = CreateObjectURL(lastOp.arg[k])

\* A pick of files none of which was in the non-empty gallery before it.
C9_Witness ==
    /\ lastOp.op = "addMany"
    /\ lastOp.before.images # <<>>
    /\ lastOp.arg # <<>>
    /\ Elements(lastOp.before.images) \cap Elements(lastOp.arg) = {}
    /\ images = lastOp.arg

\* C10 as claimed: removing an attachment that is in the gallery shortens
\* the binary list and the preview list by exactly one entry each.
C10_AsClaimed ==
    lastOp.op = "remove" =>
        /\ Len(previewImages) = Len(lastOp.before.previewImages) - 1
        /\ Len(images) = Len(lastOp.before.images) - 1

\* C11 as claimed: at most one position request is issued, and none when
\* the permission query reported "denied"; the map center is set only by
\* a successful position result; no map click is received while the
\* center is unset.
C11_AsClaimed ==
    /\ geoRequests <= 1
    /\ geoRequests = 1 => permission # "denied"
    /\ loadPosition # <<>> => geoPc = "located"
    /\ clicked => loadPosition # <<>>

\* C12: an attempt makes at most one network call, and it makes it in the
\* step that ends its validation: no step that surfaces an outcome, and no
\* later step, makes a call for it.
C12_NoAutomaticRetry ==
    [][/\ \A i \in Attempts :
            attempts'[i].posts # attempts[i].posts =>
                /\ Validating(i)
                /\ attempts[i].posts = 0
                /\ attempts'[i].posts = 1
       /\ \A i \in DOMAIN attempts' \ Attempts : attempts'[i].posts = 0]_vars

\* Both attempts have surfaced a rejection, one call each.
C12_Witness ==
    /\ Len(attempts) = 2
    /\ attempts[1].pc = "failure"
    /\ attempts[2].pc = "conflict"
    /\ NetworkCalls = 2

\* C13 as claimed: an attempt is Validating, Invalid, Submitting or at one
\* of the three network outcomes; it is past Validating towards the
\* network only if its snapshot had no error; and an attempt whose network
\* call has resolved has surfaced exactly one outcome: a notice for
\* Success, Conflict or Failure.
C13_AsClaimed ==
    \A i \in Attempts :
        /\ attempts[i].pc \in {"validating", "invalid", "submitting",
                               "success", "conflict", "failure"}
        /\ attempts[i].pc \in {"submitting", "success", "conflict", "failure"}
              => attempts[i].passed
        /\ attempts[i].pc = "invalid" => ~attempts[i].passed
        /\ attempts[i].outcome.kind # "pending" =>
              /\ attempts[i].pc \in {"success", "conflict", "failure"}
              /\ Len(attempts[i].notices) = 1

\* C14: the selection is one pair; it is the pair of the most recent map
\* click, or (0,0) while no click was received, whatever other events
\* (field edits, file picks, submit triggers, network responses) occurred.
C14_LastClickWins ==
    /\ Len(selectedPosition) = 2
    /\ selectedPosition = IF lastClick = <<>> THEN <<0, 0>> ELSE lastClick
    /\ clicked <=> lastClick # <<>>

\* A click at (5,5) was submitted; while its call is pending a click at
\* (0,5) has replaced the selection.
C14_Witness ==
    /\ selectedPosition = <<0, 5>>
    /\ lastClick = <<0, 5>>
    /\ \E i \in Attempts :
          /\ attempts[i].pc = "submitting"
          /\ attempts[i].env.selectedPosition = <<5, 5>>

\* C15: the latitude and longitude of a request are the texts of the two
\* cache items as they are when the request is built: the stored text of
\* a populated item, "null" for a missing one, whatever selection was
\* validated; the request keeps them whatever is stored later.
C15_CoordinatesFromCache ==
    [][\A i \in Attempts :
        /\ Validating(i) /\ attempts'[i].pc = "submitting" =>
              LET form == attempts'[i].data.form
              IN /\ form.latitude =
                       IF storage.latitude.has THEN storage.latitude.val ELSE "null"
                 /\ form.longitude =
                       IF storage.longitude.has THEN storage.longitude.val ELSE "null"
        /\ attempts[i].pc = "submitting" /\ attempts'[i].pc = "submitting" =>
              attempts'[i].data = attempts[i].data]_vars

\* The cache was never populated: a request whose validated selection is
\* (5,5) carries the text "null" for both coordinates.
C15_Witness ==
    \E i \in Attempts :
        /\ attempts[i].pc = "submitting"
        /\ attempts[i].env.selectedPosition = <<5, 5>>
        /\ attempts[i].data.form.latitude = "null"
        /\ attempts[i].data.form.longitude = "null"
        /\ ~storage.latitude.has

\* C16: while a network call is pending and the form is on screen, a
\* submit trigger is accepted; every call that received a response has
\* shown one notice of its own, and it has navigated exactly when the
\* response was a success, so that the navigations number the successes.
C16_ConcurrentSubmits ==
    /\ (/\ \E i \in Attempts : attempts[i].pc = "submitting"
        /\ mounted /\ Idle
        /\ Len(attempts) < MaxSubmits) => ENABLED HandleSubmit(MaxSubmits)
    /\ \A i \in Attempts :
          (\/ attempts[i].outcome.kind = "fulfilled"
           \/ /\ attempts[i].outcome.kind = "rejected"
              /\ attempts[i].outcome.error.hasResponse) =>
              /\ Len(attempts[i].notices) = 1
              /\ attempts[i].navigated = (attempts[i].outcome.kind = "fulfilled")
    /\ navigations =
          Cardinality({i \in Attempts : attempts[i].outcome.kind = "fulfilled"})

\* Two calls were in flight at once and both succeeded: two notices, two
\* navigations.
C16_Witness ==
    /\ Len(attempts) >= 2
    /\ attempts[1].pc = "success" /\ attempts[2].pc = "success"
    /\ Len(attempts[1].notices) = 1 /\ Len(attempts[2].notices) = 1
    /\ navigations = 2

\* C17 as claimed: the binary list and the preview list have the same
\* length, and the k-th preview carries the display name of the k-th
\* binary.
C17_AsClaimed ==
    /\ Len(images) = Len(previewImages)
    /\ \A k \in DOMAIN previewImages :
          k \in DOMAIN images /\ previewImages[k].name = images[k].name

\* C18: the snapshot of an attempt holds the values the draft has at the
\* submit trigger and is what the verdict of validation is about; it does
\* not change while the attempt is pending; the request is built from it
\* and does not change while the call is pending; the duplicate-name
\* notice shows the name of the snapshot, which is the name sent.
C18_AttemptWorksOnSnapshot ==
    [][/\ \A i \in DOMAIN attempts' \ Attempts :
            LET env == attempts'[i].env
            IN /\ env.name = name
               /\ env.description = description
               /\ env.opening_hours = opening_hours
               /\ env.open_on_weekends = open_on_weekends
               /\ env.images = images
               /\ attempts'[i].passed =
                     (\A f \in Fields : ~RuleFails(f, Payload(env)))
       /\ \A i \in Attempts :
            /\ attempts[i].env.live /\ attempts'[i].env.live =>
                  attempts'[i].env = attempts[i].env
            /\ Validating(i) /\ attempts'[i].pc = "submitting" =>
                  LET env == attempts[i].env
                      form == attempts'[i].data.form
                  IN /\ form.name = env.name
                     /\ form.description = env.description
                     /\ form.opening_hours = env.opening_hours
                     /\ form.open_on_weekends =
                           (IF env.open_on_weekends THEN "true" ELSE "false")
                     /\ form.images = env.images
            /\ attempts[i].pc = "submitting" /\ attempts'[i].pc = "submitting" =>
                  attempts'[i].data = attempts[i].data
            /\ attempts[i].pc = "submitting" /\ attempts'[i].pc = "conflict" =>
                  /\ attempts'[i].notices =
                        <<Notice("warning", attempts[i].env.name)>>
                  /\ attempts[i].env.name = attempts[i].data.form.name]_vars

\* The name was cleared and the gallery emptied while the call was
\* pending: the duplicate-name notice shows the name that was submitted.
C18_Witness ==
    \E i \in Attempts :
        /\ attempts[i].pc = "conflict"
        /\ attempts[i].notices = <<Notice("warning", "Lar Esperança")>>
        /\ name = ""
        /\ images = <<>>
        /\ ~open_on_weekends

\* C19: while the map center is unset (the position request is pending,
\* has failed, was denied, or its result was dropped) no click was
\* received, the selection is (0,0), no network call was made, every
\* attempt is being validated or has ended Invalid, and the latest attempt
\* that ended Invalid has left the location slot populated.
C19_NoCenterNoCall ==
    loadPosition = <<>> =>
        /\ ~clicked
        /\ selectedPosition = <<0, 0>>
        /\ NetworkCalls = 0
        /\ \A i \in Attempts :
              /\ attempts[i].pc \in {"validating", "invalid"}
              /\ ~attempts[i].passed
              /\ attempts[i].pc = "invalid" /\ Latest(i) =>
                    alertPosition = LocationMissing

\* The permission was denied; a draft with every other field valid was
\* submitted and refused for its location alone.
C19_Witness ==
    /\ permission = "denied"
    /\ geoPc = "failed"
    /\ name # "" /\ description \in 1..300 /\ opening_hours # ""
    /\ Len(images) \in 1..5
    /\ \E i \in Attempts : attempts[i].pc = "invalid" /\ Latest(i)
    /\ alertPosition = LocationMissing
    /\ alertName = "" /\ alertDescription = "" /\ alertImages = "" /\ alertOh = ""

=============================================================================
